---- MODULE Spec2Model ----
(***************************************************************************)
(* A model of the open-source web scraper (src/OSWebScrap.py) and of the   *)
(* /OpenSourceWebscrape/ endpoint that drives it (src/api/main.py).        *)
(*                                                                         *)
(* Strings whose characters matter (URLs, cell texts, rendered table      *)
(* lines) are sequences of one-character strings, so that startswith,     *)
(* endswith, lower, strip, replace and join are computed character by     *)
(* character as Python computes them.                                     *)
(***************************************************************************)
EXTENDS Integers, Sequences, FiniteSets, TLC

VARIABLES
    u_url,       \* is_valid_url: the argument url
    u_done,      \* is_valid_url: has the call returned
    u_result,    \* is_valid_url: the value returned
    t_table,     \* one <table> element: its <tr> rows, each a sequence of cells
    t_pc,        \* table pass: "parsed" -> "extracted" -> "rendered"
    t_tables,    \* the list `tables` built by lines 89-122
    t_md,        \* the lines lines 140-160 append to markdown_content
    entry,       \* "api": POST /OpenSourceWebscrape/; "cli": python OSWebScrap.py
    pc,          \* where the request is
    user_url,    \* the URL of the request
    valid,       \* what is_valid_url returned for it
    web_page,    \* the document the web serves at that URL
    call,        \* which call of scrape_visual_data the request is in (0: none yet)
    soup,        \* scrape_visual_data: the parsed response
    img_idx,     \* scrape_visual_data: idx of the <img> loop (line 61)
    images_list, \* scrape_visual_data: the list `images`
    tables_list, \* scrape_visual_data: the list `tables`
    markdown_content,  \* scrape_visual_data: the document, as its lines
    s3_object,   \* the object stored at markdown_s3_path: <<>> or <<document>>
    s3_at_call,  \* history: s3_object when the current call began
    net,         \* history: the requests.get and put_object calls made, in order
    put_results, \* history: what upload_file_to_s3 returned, per call
    returned,    \* history: what scrape_visual_data returned, per call
    response,    \* how the request ended: HTTP status or process exit
    c_entry,     \* two requests at once: the entry point of each
    c_page,      \* two requests at once: the page each one is served
    c_pc,        \* two requests at once: where each one is
    c_call,      \* two requests at once: the call of scrape_visual_data each is in
    c_doc,       \* two requests at once: markdown_content of each
    c_store,     \* the bucket: a set of objects [key, body]
    c_puts,      \* history: the put_object calls made, in order
    i_tags,      \* image pass: soup.find_all("img")
    i_outs,      \* image pass: how the fetch of each <img> ended
    i_pc,        \* image pass: "scrape", "format", "done"
    i_images,    \* image pass: the list `images`
    i_md,        \* image pass: the Images section of markdown_content
    x_page,      \* text pass: the page
    x_pc,        \* text pass: "clean", "done"
    x_cleaned,   \* text pass: cleaned_text
    latest_file_details,  \* src/api/main.py: the module's dict of that name
    pdf_last,    \* the last request to the PDF endpoints and how it ended
    pdf_uploaded, \* history: the filename of the last upload that succeeded
    pdf_fetched  \* history: get-latest-file-url succeeded since that upload

uvars == <<u_url, u_done, u_result>>
tvars == <<t_table, t_pc, t_tables, t_md>>
mvars == <<entry, pc, user_url, valid, web_page, call, soup, img_idx, images_list, tables_list,
           markdown_content, s3_object, s3_at_call, net, put_results, returned,
           response>>
cvars == <<c_entry, c_page, c_pc, c_call, c_doc, c_store, c_puts>>
ivars == <<i_tags, i_outs, i_pc, i_images, i_md>>
xvars == <<x_page, x_pc, x_cleaned>>
pvars == <<latest_file_details, pdf_last, pdf_uploaded, pdf_fetched>>
vars == <<u_url, u_done, u_result, t_table, t_pc, t_tables, t_md,
          entry, pc, user_url, valid, web_page, call, soup, img_idx, images_list, tables_list,
          markdown_content, s3_object, s3_at_call, net, put_results, returned,
          response, c_entry, c_page, c_pc, c_call, c_doc, c_store, c_puts,
          i_tags, i_outs, i_pc, i_images, i_md, x_page, x_pc, x_cleaned,
          latest_file_details, pdf_last, pdf_uploaded, pdf_fetched>>

-----------------------------------------------------------------------------
(* Python str operations, on sequences of characters.                      *)

\* str.lower() on one character (the upper-case letters the inputs use).
LowerChar(c) ==
    CASE c = "D" -> "d"
      [] c = "F" -> "f"
      [] c = "G" -> "g"
      [] c = "H" -> "h"
      [] c = "N" -> "n"
      [] c = "P" -> "p"
      [] c = "T" -> "t"
      [] OTHER -> c

\* str.lower()
Lower(s) == [i \in 1..Len(s) |-> LowerChar(s[i])]

\* str.startswith(prefix)
StartsWith(s, p) == Len(s) >= Len(p) /\ SubSeq(s, 1, Len(p)) = p

\* str.endswith(suffix)
EndsWith(s, x) == Len(s) >= Len(x) /\ SubSeq(s, Len(s) - Len(x) + 1, Len(s)) = x

\* The concatenation of a sequence of strings.
RECURSIVE Concat(_)
Concat(ss) == IF ss = <<>> THEN <<>> ELSE Head(ss) \o Concat(Tail(ss))

-----------------------------------------------------------------------------
(* URL validation: src/OSWebScrap.py lines 21-50.                          *)

DISALLOWED_EXTENSIONS ==
    << <<".", "p", "d", "f">>,
       <<".", "x", "l", "s">>,
       <<".", "x", "l", "s", "x">>,
       <<".", "d", "o", "c">>,
       <<".", "d", "o", "c", "x">>,
       <<".", "p", "p", "t">>,
       <<".", "p", "p", "t", "x">>,
       <<".", "z", "i", "p">>,
       <<".", "r", "a", "r">> >>

HttpPrefix == <<"h", "t", "t", "p", ":", "/", "/">>
HttpsPrefix == <<"h", "t", "t", "p", "s", ":", "/", "/">>

is_valid_url(url) ==
    IF ~(StartsWith(url, HttpPrefix) \/ StartsWith(url, HttpsPrefix))
    THEN FALSE
    ELSE IF \E i \in 1..Len(DISALLOWED_EXTENSIONS) :
                EndsWith(Lower(url), DISALLOWED_EXTENSIONS[i])
         THEN FALSE
         ELSE TRUE

(* The URLs the calls are made with: scheme prefix, host, path, query and  *)
(* fragment, each from a small set, concatenated.                          *)
UrlSchemes ==
    { HttpPrefix, HttpsPrefix,
      <<"H", "T", "T", "P", ":", "/", "/">>,
      <<"f", "t", "p", ":", "/", "/">>,
      <<>> }

UrlHosts == { <<"h">>, <<"h", ".", "z", "i", "p">> }

UrlPaths ==
    { <<>>,
      <<"/">>,
      <<"/", "p">>,
      <<"/", "f", ".", "p", "d", "f">>,
      <<"/", "f", ".", "P", "D", "F">>,
      <<"/", "f", ".", "d", "o", "c">>,
      <<"/", "f", ".", "d", "o", "c", "x">>,
      <<"/", "f", ".", "p", "d", "f", "s">>,
      <<"/", "f", ".", "p", "d", "f", "/">> }

UrlQueries == { <<>>, <<"?", "q">>, <<"?", "f", ".", "p", "d", "f">> }

UrlFragments == { <<>>, <<"#", "s">>, <<"#", "x", ".", "r", "a", "r">> }

Urls ==
    { s \o h \o p \o q \o f :
        s \in UrlSchemes, h \in UrlHosts, p \in UrlPaths,
        q \in UrlQueries, f \in UrlFragments }

UrlInit ==
    /\ u_url \in Urls
    /\ u_done = FALSE
    /\ u_result = FALSE

\* One call is_valid_url(u_url).
CallIsValidUrl ==
    /\ ~u_done
    /\ u_done' = TRUE
    /\ u_result' = is_valid_url(u_url)
    /\ UNCHANGED u_url

-----------------------------------------------------------------------------
(* The parts of a URL, as urllib.parse.urlsplit names them; the claims     *)
(* about validation speak of the scheme and the path.                      *)

\* The least index i >= from with s[i] \in cs, or Len(s) + 1.
RECURSIVE FirstOf(_, _, _)
FirstOf(s, cs, from) ==
    IF from > Len(s) THEN Len(s) + 1
    ELSE IF s[from] \in cs THEN from
    ELSE FirstOf(s, cs, from + 1)

\* Does the URL carry the scheme http or https, written as the spec writes it.
UrlHasHttpScheme(url) == StartsWith(url, HttpPrefix) \/ StartsWith(url, HttpsPrefix)

\* The characters after "scheme://".
UrlAfterScheme(url) ==
    IF StartsWith(url, HttpsPrefix) THEN SubSeq(url, Len(HttpsPrefix) + 1, Len(url))
    ELSE SubSeq(url, Len(HttpPrefix) + 1, Len(url))

\* The path: from the first "/" after the authority up to the query or fragment.
UrlPath(url) ==
    LET rest == UrlAfterScheme(url)
        a == FirstOf(rest, {"/", "?", "#"}, 1)
        e == FirstOf(rest, {"?", "#"}, 1)
    IN  SubSeq(rest, a, e - 1)

PathHasDisallowedExtension(url) ==
    \E i \in 1..Len(DISALLOWED_EXTENSIONS) :
        EndsWith(Lower(UrlPath(url)), DISALLOWED_EXTENSIONS[i])

-----------------------------------------------------------------------------
(* Tables: src/OSWebScrap.py lines 88-122 (extraction) and 139-160         *)
(* (rendering).  A <table> is the sequence of its <tr> elements in         *)
(* document order, a <tr> the sequence of its <td>/<th> cells, a cell its  *)
(* tag name and its text as written in the page.                           *)

MaxRows == 2
MaxCells == 2

Whitespace == {" ", "\n", "\t"}

\* str.strip()
RECURSIVE LStrip(_)
LStrip(s) == IF s # <<>> /\ Head(s) \in Whitespace THEN LStrip(Tail(s)) ELSE s

RECURSIVE RStrip(_)
RStrip(s) ==
    IF s # <<>> /\ s[Len(s)] \in Whitespace THEN RStrip(SubSeq(s, 1, Len(s) - 1)) ELSE s

Strip(s) == LStrip(RStrip(s))

\* cell.get_text(strip=True), for a cell holding one text node.
get_text(cell) == Strip(cell.text)

\* The cells a page's tables are made of.
TableCells ==
    { [name |-> "th", text |-> <<"x", "|", "y">>],
      [name |-> "td", text |-> <<" ", "1", " ">>],
      [name |-> "td", text |-> <<"a", "|", "b">>] }

SeqsUpTo(S, n) == UNION { [1..k -> S] : k \in 0..n }

TableRows == SeqsUpTo(TableCells, MaxCells)

TableElements == SeqsUpTo(TableRows, MaxRows)

\* [f(x) for x in s if p(x)]: the subsequence of s on the indices in keep.
RECURSIVE SelectIdx(_, _, _)
SelectIdx(s, keep, i) ==
    IF i > Len(s) THEN <<>>
    ELSE (IF i \in keep THEN <<s[i]>> ELSE <<>>) \o SelectIdx(s, keep, i + 1)

\* table.find_all("th"): every <th> of the table, in document order.
find_all_th(table) == SelectSeq(Concat(table), LAMBDA c : c.name = "th")

\* Lines 93-105: the header row.
HeaderRow(table) ==
    LET headers == find_all_th(table)
    IN  IF headers # <<>>
        THEN [i \in 1..Len(headers) |-> get_text(headers[i])]
        ELSE IF table # <<>> /\ table[1] # <<>>
             THEN [i \in 1..Len(table[1]) |-> get_text(table[1][i])]
             ELSE <<>>

\* Line 111: rows[0] == row and header_row and all cells of row are <th>.
\* bs4 compares two Tags by name, attributes and contents, not by identity.
IsSkippedHeader(table, header_row, i) ==
    /\ table[1] = table[i]
    /\ header_row # <<>>
    /\ \A j \in 1..Len(table[i]) : table[i][j].name = "th"

\* Lines 107-116: the data rows.
TableData(table, header_row) ==
    LET keep == { i \in 1..Len(table) :
                    ~IsSkippedHeader(table, header_row, i) /\ table[i] # <<>> }
        texts == [i \in 1..Len(table) |->
                    [j \in 1..Len(table[i]) |-> get_text(table[i][j])]]
    IN  SelectIdx(texts, keep, 1)

\* Lines 90-122, for one table.
ExtractTable(table) ==
    LET header_row == HeaderRow(table)
    IN  [headers |-> header_row, rows |-> TableData(table, header_row)]

\* str.join
RECURSIVE Join(_, _)
Join(sep, ss) ==
    IF ss = <<>> THEN <<>>
    ELSE IF Len(ss) = 1 THEN ss[1]
    ELSE ss[1] \o sep \o Join(sep, Tail(ss))

\* Line 157: cell.replace("|", "\\|")
Sanitize(cell) ==
    Concat([i \in 1..Len(cell) |-> IF cell[i] = "|" THEN <<"\\", "|">> ELSE <<cell[i]>>])

\* "| " + " | ".join(cells) + " |\n", the newline ending the line.
PipeLine(cells) == <<"|", " ">> \o Join(<<" ", "|", " ">>, cells) \o <<" ", "|">>

\* A slip: a row cut to the header's length.
PadRow_Truncating(headers, row) ==
    IF headers # <<>> /\ Len(row) < Len(headers)
    THEN row \o [i \in 1..(Len(headers) - Len(row)) |-> <<>>]
    ELSE IF headers # <<>> THEN SubSeq(row, 1, Len(headers)) ELSE row

\* Lines 153-155: row.extend(...), which changes the row held in `tables`.
PadRow(headers, row) ==
    IF headers # <<>> /\ Len(row) < Len(headers)
    THEN row \o [i \in 1..(Len(headers) - Len(row)) |-> <<>>]
    ELSE row

\* `tables` after lines 152-155 have run over every row.
PadTable(table) ==
    [headers |-> table.headers,
     rows |-> [i \in 1..Len(table.rows) |-> PadRow(table.headers, table.rows[i])]]

\* Lines 143-160: the lines of the subsection of table number idx.
RenderTable(table, idx) ==
    LET headers == table.headers
        header_lines ==
            IF headers # <<>>
            THEN << [k |-> "header", n |-> idx, chars |-> PipeLine(headers)],
                    [k |-> "separator", n |-> idx,
                     chars |-> PipeLine([i \in 1..Len(headers) |-> <<"-", "-", "-">>])] >>
            ELSE <<>>
        row_lines ==
            [i \in 1..Len(table.rows) |->
                [k |-> "row", n |-> idx,
                 chars |-> PipeLine(LET row == PadRow(headers, table.rows[i])
                                    IN  [j \in 1..Len(row) |-> Sanitize(row[j])])]]
    IN  << [k |-> "h3", n |-> idx, chars |-> <<>>] >> \o header_lines \o row_lines

\* Lines 140-160: the Tables section.
RECURSIVE RenderTableList(_, _)
RenderTableList(tables, idx) ==
    IF idx > Len(tables) THEN <<>>
    ELSE RenderTable(tables[idx], idx) \o RenderTableList(tables, idx + 1)

RenderTables(tables) ==
    IF tables # <<>>
    THEN << [k |-> "h2", n |-> 0, chars |-> <<"T", "a", "b", "l", "e", "s">>] >>
         \o RenderTableList(tables, 1)
    ELSE <<>>

TableInit ==
    /\ t_table \in TableElements
    /\ t_pc = "parsed"
    /\ t_tables = <<>>
    /\ t_md = <<>>

\* Lines 89-122 on a page whose only table is t_table.
ScrapeTables ==
    /\ t_pc = "parsed"
    /\ t_tables' = <<ExtractTable(t_table)>>
    /\ t_pc' = "extracted"
    /\ UNCHANGED <<t_table, t_md>>

\* Lines 140-160.
FormatTables ==
    /\ t_pc = "extracted"
    /\ t_md' = RenderTables(t_tables)
    /\ t_tables' = [i \in 1..Len(t_tables) |-> PadTable(t_tables[i])]
    /\ t_pc' = "rendered"
    /\ UNCHANGED t_table

-----------------------------------------------------------------------------
(* The page: src/OSWebScrap.py lines 56-133.  A parsed page is the         *)
(* sequence of its elements in document order: <img>, <table>, text and    *)
(* <script>/<style>.                                                       *)

MaxElems == 2

\* An attribute that is not there.
None == <<"None">>

PngSrc == <<"a", ".", "P", "N", "G">>
GifSrc == <<"b", ".", "g", "i", "f">>

PageElements ==
    { [kind |-> "img", src |-> PngSrc, alt |-> None, table |-> <<>>, text |-> <<>>],
      [kind |-> "img", src |-> None, alt |-> None, table |-> <<>>, text |-> <<>>],
      [kind |-> "img", src |-> GifSrc, alt |-> <<"l", "o", "g", "o">>,
       table |-> <<>>, text |-> <<>>],
      [kind |-> "table", src |-> None, alt |-> None,
       table |-> << <<[name |-> "td", text |-> <<" ", "1", " ">>]>> >>, text |-> <<>>],
      [kind |-> "text", src |-> None, alt |-> None, table |-> <<>>,
       text |-> <<" ", "a", " ", " ", "b", "\n">>],
      [kind |-> "script", src |-> None, alt |-> None, table |-> <<>>,
       text |-> <<"j", "s">>] }

Pages == SeqsUpTo(PageElements, MaxElems)

\* soup.find_all(tag)
find_all(page, tag) == SelectSeq(page, LAMBDA e : e.kind = tag)

\* requests.compat.urljoin(url, src) for a src that is a bare file name:
\* the base up to its query or fragment, cut after its last "/" past the
\* authority (a "/" is added when the base has no path), then src.
RECURSIVE LastSlash(_, _)
LastSlash(s, i) == IF i = 0 THEN 0 ELSE IF s[i] = "/" THEN i ELSE LastSlash(s, i - 1)

urljoin(url, src) ==
    LET plen == IF StartsWith(url, HttpsPrefix) THEN Len(HttpsPrefix) ELSE Len(HttpPrefix)
        e == FirstOf(url, {"?", "#"}, plen + 1)
        base == SubSeq(url, 1, e - 1)
        ls == LastSlash(base, Len(base))
    IN  IF ls > plen THEN SubSeq(base, 1, ls) \o src ELSE base \o <<"/">> \o src

\* A slip: the ending compared without lower().
img_format_CaseSensitive(img_url) ==
    IF EndsWith(img_url, <<".", "p", "n", "g">>) THEN "png"
    ELSE IF EndsWith(img_url, <<".", "g", "i", "f">>) THEN "gif"
    ELSE "jpeg"

\* Lines 70-75: the format, from the end of the resolved URL.
img_format(img_url) ==
    IF EndsWith(Lower(img_url), <<".", "p", "n", "g">>) THEN "png"
    ELSE IF EndsWith(Lower(img_url), <<".", "g", "i", "f">>) THEN "gif"
    ELSE "jpeg"

\* A slip: the placeholder counted from 0.
img_alt_ZeroBased(img_tag, idx) ==
    IF img_tag.alt # None THEN [text |-> img_tag.alt, n |-> 0]
    ELSE [text |-> <<"I", "m", "a", "g", "e", " ">>, n |-> idx]

\* Line 83: img_tag.get("alt", f"Image {idx + 1}"), idx counting from 0.
img_alt(img_tag, idx) ==
    IF img_tag.alt # None THEN [text |-> img_tag.alt, n |-> 0]
    ELSE [text |-> <<"I", "m", "a", "g", "e", " ">>, n |-> idx + 1]

\* How a requests.get can end: "ok" is a 2xx response, "http_error" a 4xx or
\* 5xx response, "status_3xx" a 3xx response requests does not follow (300,
\* 304, no Location header) and returns as it is, "transport_error" an
\* exception raised by requests.get itself.
FetchOutcomes == {"ok", "status_3xx", "http_error", "transport_error"}

\* What requests.get(img_url) does: it raises on a transport failure only.
\* A response with any status is returned like any other.
ImageFetchRaises(outcome) == outcome = "transport_error"

\* Lines 54-55 without raise_for_status().
PageFetchRaises_NoRaiseForStatus(outcome) == outcome = "transport_error"

\* Lines 54-55: requests.get raises on a transport failure, raise_for_status
\* on a status from 400 to 599.
PageFetchRaises(outcome) == outcome \in {"transport_error", "http_error"}

\* response.content of an image request that returned.
ResponseContent(outcome) == IF outcome = "ok" THEN "image_bytes" ELSE "error_body"

\* str.splitlines(): the pieces between line ends, no piece after a final one.
RECURSIVE splitlines(_)
splitlines(s) ==
    IF s = <<>> THEN <<>>
    ELSE LET e == FirstOf(s, {"\n"}, 1)
         IN  <<SubSeq(s, 1, e - 1)>> \o splitlines(SubSeq(s, e + 1, Len(s)))

\* str.split("  ")
RECURSIVE split2(_, _)
split2(s, from) ==
    IF \E i \in from..(Len(s) - 1) : s[i] = " " /\ s[i + 1] = " "
    THEN LET i == CHOOSE i \in from..(Len(s) - 1) :
                    /\ s[i] = " " /\ s[i + 1] = " "
                    /\ \A j \in from..(i - 1) : ~(s[j] = " " /\ s[j + 1] = " ")
         IN  <<SubSeq(s, from, i - 1)>> \o split2(s, i + 2)
    ELSE <<SubSeq(s, from, Len(s))>>

\* Lines 126-130: the text of the page without its scripts and styles; the
\* cells of the tables are text of the page too.
VisibleText(page) ==
    Concat([i \in 1..Len(page) |->
        IF page[i].kind = "text" THEN page[i].text
        ELSE IF page[i].kind = "table"
             THEN Concat([r \in 1..Len(page[i].table) |->
                     Concat([c \in 1..Len(page[i].table[r]) |-> page[i].table[r][c].text])])
             ELSE <<>>])

\* A slip: the empty chunks are joined like the others.
cleaned_text_KeepEmpty(text) ==
    LET lines == [i \in 1..Len(splitlines(text)) |-> Strip(splitlines(text)[i])]
        phrases == Concat([i \in 1..Len(lines) |-> split2(lines[i], 1)])
        chunks == [i \in 1..Len(phrases) |-> Strip(phrases[i])]
    IN  Join(<<"\n">>, chunks)

\* Lines 131-133.
cleaned_text(text) ==
    LET lines == [i \in 1..Len(splitlines(text)) |-> Strip(splitlines(text)[i])]
        phrases == Concat([i \in 1..Len(lines) |-> split2(lines[i], 1)])
        chunks == [i \in 1..Len(phrases) |-> Strip(phrases[i])]
    IN  Join(<<"\n">>, SelectSeq(chunks, LAMBDA c : c # <<>>))

\* Lines 89-122 over every table of the page.
ExtractTables(page) ==
    LET ts == find_all(page, "table")
    IN  [i \in 1..Len(ts) |-> ExtractTable(ts[i].table)]

\* Lines 163-167.
RenderImages(images) ==
    IF images # <<>>
    THEN << [k |-> "h2", n |-> 0, chars |-> <<"I", "m", "a", "g", "e", "s">>] >>
         \o [i \in 1..Len(images) |->
                [k |-> "img", n |-> i, chars |-> <<>>,
                 alt |-> images[i].alt, embedded |-> images[i].embedded]]
    ELSE <<>>

\* Lines 136-137.
RenderContent(text) ==
    << [k |-> "h1", n |-> 0,
        chars |-> <<"E", "x", "t", "r", "a", "c", "t", "e", "d", " ",
                    "W", "e", "b", " ", "C", "o", "n", "t", "e", "n", "t">>],
       [k |-> "h2", n |-> 0, chars |-> <<"C", "o", "n", "t", "e", "n", "t">>],
       [k |-> "text", n |-> 0, chars |-> text] >>

\* A slip: the images written before the tables.
RenderMarkdown_ImagesFirst(text, tables, images) ==
    RenderContent(text) \o RenderImages(images) \o RenderTables(tables)

\* Lines 135-167: markdown_content.
RenderMarkdown(text, tables, images) ==
    RenderContent(text) \o RenderTables(tables) \o RenderImages(images)

\* Line 170.
markdown_s3_path == "scraped_data/scraped_os_data/scraped_content.md"

-----------------------------------------------------------------------------
(* One request: src/api/main.py lines 568-588 (scrape_url) or              *)
(* src/OSWebScrap.py lines 188-200 (__main__), and the calls of            *)
(* scrape_visual_data (src/OSWebScrap.py lines 53-173) it makes.           *)

RequestUrls ==
    { <<"h", "t", "t", "p", ":", "/", "/", "h", "/", "d", "/", "p", "?", "q">>,
      <<"h", "t", "t", "p", ":", "/", "/", "h", "/", "f", ".", "p", "d", "f">>,
      <<"f", "t", "p", ":", "/", "/", "h", "/", "p">> }

\* The body of a response that is not the document, parsed as a page.
ErrorPage ==
    << [kind |-> "text", src |-> None, alt |-> None, table |-> <<>>,
        text |-> <<"4", "0", "4">>] >>

\* A slip: the validation result not acted on.
UrlRejected_Never(v) == FALSE

\* main.py line 572, OSWebScrap.py line 192: if not is_valid_url(url)
UrlRejected(v) == ~v

\* Line 173: return markdown_s3_path, whatever upload_file_to_s3 returned.
ScrapeResult(put_result) == markdown_s3_path

\* The calls of scrape_visual_data a request makes: main.py lines 576 and 579
\* (scrape_text_data_with_images is the same function), OSWebScrap.py line 197.
CallsPerRequest(e) == IF e = "api" THEN 2 ELSE 1

MainInit ==
    /\ entry \in {"api", "cli"}
    /\ pc = "validate"
    /\ user_url \in RequestUrls
    /\ valid = FALSE
    /\ web_page \in Pages
    /\ call = 0
    /\ soup = <<>>
    /\ img_idx = 0
    /\ images_list = <<>>
    /\ tables_list = <<>>
    /\ markdown_content = <<>>
    /\ s3_object = <<>>
    /\ s3_at_call = <<>>
    /\ net = <<>>
    /\ put_results = <<>>
    /\ returned = <<>>
    /\ response = "none"

\* What follows the validation, v being its result.
AfterValidation(v) ==
    /\ valid' = v
    /\ IF UrlRejected(v)
       THEN /\ pc' = "rejected"
            /\ response' = IF entry = "api" THEN "400" ELSE "exit 1"
            /\ call' = call
       ELSE /\ pc' = "fetch"
            /\ call' = 1
            /\ response' = response
    /\ UNCHANGED <<entry, user_url, web_page, soup, img_idx, images_list, tables_list, markdown_content,
                   s3_object, s3_at_call, net, put_results, returned>>

\* main.py lines 570-573.  The is_valid_url called here is the one of
\* EnterpriseWebScrap (main.py line 24): any result is possible.
ScrapeUrlValidate ==
    /\ pc = "validate"
    /\ entry = "api"
    /\ \E v \in BOOLEAN : AfterValidation(v)

\* OSWebScrap.py lines 190-194.
MainValidate ==
    /\ pc = "validate"
    /\ entry = "cli"
    /\ AfterValidation(is_valid_url(user_url))

\* Lines 54-56: the primary document.
FetchPage ==
    /\ pc = "fetch"
    /\ \E outcome \in FetchOutcomes :
        /\ net' = Append(net, [call |-> call, op |-> "get_page", outcome |-> outcome, idx |-> 0])
        /\ IF PageFetchRaises(outcome)
           THEN /\ pc' = "raised"
                /\ response' = IF entry = "api" THEN "500" ELSE "traceback"
                /\ soup' = soup
           ELSE /\ pc' = "images"
                /\ response' = response
                /\ soup' = IF outcome = "ok" THEN web_page ELSE ErrorPage
    /\ s3_at_call' = s3_object
    /\ img_idx' = 0
    /\ images_list' = <<>>
    /\ tables_list' = <<>>
    /\ markdown_content' = <<>>
    /\ UNCHANGED <<entry, user_url, valid, web_page, call, s3_object, put_results, returned>>

\* Lines 61-64: an <img> without src.
SkipImage ==
    /\ pc = "images"
    /\ img_idx < Len(find_all(soup, "img"))
    /\ find_all(soup, "img")[img_idx + 1].src = None
    /\ img_idx' = img_idx + 1
    /\ UNCHANGED <<entry, pc, user_url, valid, web_page, call, soup, images_list, tables_list,
                   markdown_content, s3_object, s3_at_call, net, put_results,
                   returned, response>>

\* Lines 61-86: an <img> with src.
FetchImage ==
    /\ pc = "images"
    /\ img_idx < Len(find_all(soup, "img"))
    /\ LET img_tag == find_all(soup, "img")[img_idx + 1]
           img_url == urljoin(user_url, img_tag.src)
       IN  /\ img_tag.src # None
           /\ \E outcome \in FetchOutcomes :
                /\ net' = Append(net, [call |-> call, op |-> "get_image",
                                       outcome |-> outcome, idx |-> img_idx])
                /\ images_list' =
                     IF ImageFetchRaises(outcome) THEN images_list
                     ELSE Append(images_list,
                            [embedded |-> [format |-> img_format(img_url),
                                           data |-> ResponseContent(outcome)],
                             alt |-> img_alt(img_tag, img_idx)])
    /\ img_idx' = img_idx + 1
    /\ UNCHANGED <<entry, pc, user_url, valid, web_page, call, soup, tables_list,
                   markdown_content, s3_object, s3_at_call, put_results,
                   returned, response>>

\* Lines 88-167: tables, text and the document.
BuildMarkdown ==
    /\ pc = "images"
    /\ img_idx = Len(find_all(soup, "img"))
    /\ markdown_content' =
         RenderMarkdown(cleaned_text(VisibleText(soup)), ExtractTables(soup), images_list)
    /\ tables_list' = [i \in 1..Len(ExtractTables(soup)) |-> PadTable(ExtractTables(soup)[i])]
    /\ pc' = "upload"
    /\ UNCHANGED <<entry, user_url, valid, web_page, call, soup, img_idx, images_list, s3_object,
                   s3_at_call, net, put_results, returned, response>>

\* Lines 169-173 and upload_file_to_s3 (lines 25-38), then the caller: the
\* next call of the request or its end (main.py 576-587, OSWebScrap.py 197-200).
Upload ==
    /\ pc = "upload"
    /\ \E ok \in BOOLEAN :
        LET put_result == IF ok THEN "s3_url" ELSE "None"
        IN  /\ net' = Append(net, [call |-> call, op |-> "put_object",
                                   outcome |-> IF ok THEN "ok" ELSE "error", idx |-> 0])
            /\ s3_object' = IF ok THEN <<markdown_content>> ELSE s3_object
            /\ put_results' = Append(put_results, put_result)
            /\ returned' = Append(returned, ScrapeResult(put_result))
    /\ IF call < CallsPerRequest(entry)
       THEN /\ call' = call + 1
            /\ pc' = "fetch"
            /\ response' = response
       ELSE /\ call' = call
            /\ pc' = "done"
            /\ response' = IF entry = "api" THEN "200" ELSE "exit 0"
    /\ UNCHANGED <<entry, user_url, valid, web_page, soup, img_idx, images_list, tables_list,
                   markdown_content, s3_at_call>>

-----------------------------------------------------------------------------
(* Two requests at once.  scrape_url is an async function that never       *)
(* awaits, so one server process runs its requests one after the other;    *)
(* requests of two server processes, or two runs of OSWebScrap.py, can     *)
(* interleave anywhere.  They share the bucket and nothing else.           *)

Procs == {1, 2}

\* A URL that passes validation.
ScrapedUrl == <<"h", "t", "t", "p", ":", "/", "/", "h", "/", "d", "/", "p", "?", "q">>

\* The pages the two requests are served: at most one element each.
ConcPages == { p \in Pages : Len(p) <= 1 }

\* How the requests.get of each <img> of a page ends; an <img> without src
\* is not fetched.
ImageOutcomes(img_tags) ==
    { f \in [1..Len(img_tags) -> FetchOutcomes \cup {"not_fetched"}] :
        \A i \in 1..Len(img_tags) : (f[i] = "not_fetched") <=> (img_tags[i].src = None) }

\* Lines 58-86: the list `images` after the loop has run over img_tags from
\* index idx (counted from 0) on, outs[i] being how the fetch of img_tags[i] ends.
RECURSIVE EmbedImages(_, _, _, _)
EmbedImages(url, img_tags, outs, idx) ==
    IF idx >= Len(img_tags) THEN <<>>
    ELSE LET img_tag == img_tags[idx + 1]
             rest == EmbedImages(url, img_tags, outs, idx + 1)
         IN  IF img_tag.src = None THEN rest
             ELSE IF ImageFetchRaises(outs[idx + 1]) THEN rest
             ELSE << [embedded |-> [format |-> img_format(urljoin(url, img_tag.src)),
                                    data |-> ResponseContent(outs[idx + 1])],
                      alt |-> img_alt(img_tag, idx)] >> \o rest

\* Lines 56-167: markdown_content for a page that was fetched.
ScrapeDocument(url, page, outs) ==
    RenderMarkdown(cleaned_text(VisibleText(page)), ExtractTables(page),
                   EmbedImages(url, find_all(page, "img"), outs, 0))

\* A slip: an object that is there is not written over.
StoredAfterPut_KeepExisting(store, key, body, ok) ==
    IF ok /\ ~(\E o \in store : o.key = key)
    THEN store \cup {[key |-> key, body |-> body]}
    ELSE store

\* Lines 27-32: s3.put_object(Bucket, Key, Body): the object at Key is replaced
\* as a whole, or, when the call raises, left as it was.
StoredAfterPut(store, key, body, ok) ==
    IF ok
    THEN { o \in store : o.key # key } \cup {[key |-> key, body |-> body]}
    ELSE store

ConcInit ==
    /\ c_entry \in [Procs -> {"api", "cli"}]
    /\ c_page \in [Procs -> ConcPages]
    /\ c_pc = [p \in Procs |-> "scrape"]
    /\ c_call = [p \in Procs |-> 1]
    /\ c_doc = [p \in Procs |-> <<>>]
    /\ c_store = {}
    /\ c_puts = <<>>

\* Lines 53-167 in request p, the page fetched.
ConcScrape(p) ==
    /\ c_pc[p] = "scrape"
    /\ \E outs \in ImageOutcomes(find_all(c_page[p], "img")) :
        c_doc' = [c_doc EXCEPT ![p] = ScrapeDocument(ScrapedUrl, c_page[p], outs)]
    /\ c_pc' = [c_pc EXCEPT ![p] = "upload"]
    /\ UNCHANGED <<c_entry, c_page, c_call, c_store, c_puts>>

\* Lines 169-173 in request p, then its next call or its end.
ConcUpload(p) ==
    /\ c_pc[p] = "upload"
    /\ \E ok \in BOOLEAN :
        /\ c_store' = StoredAfterPut(c_store, markdown_s3_path, c_doc[p], ok)
        /\ c_puts' = Append(c_puts, [proc |-> p, key |-> markdown_s3_path,
                                     body |-> c_doc[p], ok |-> ok])
    /\ IF c_call[p] < CallsPerRequest(c_entry[p])
       THEN /\ c_call' = [c_call EXCEPT ![p] = c_call[p] + 1]
            /\ c_pc' = [c_pc EXCEPT ![p] = "scrape"]
       ELSE /\ c_call' = c_call
            /\ c_pc' = [c_pc EXCEPT ![p] = "done"]
    /\ UNCHANGED <<c_entry, c_page, c_doc>>

-----------------------------------------------------------------------------
(* The image pass on its own: src/OSWebScrap.py lines 58-86 and 163-167.   *)

MaxImgs == 2

\* What the src attribute of an <img> is: absent, or a bare file name.
ImgSrcs ==
    { None, PngSrc, GifSrc,
      <<"c", ".", "w", "e", "b", "p">>,
      <<"d", ".", "p", "n", "g", "?", "v">>,
      <<"e">> }

\* What the alt attribute of an <img> is: absent, or a text.
ImgAlts == { None, <<"l", "o", "g", "o">> }

ImgTags ==
    { [kind |-> "img", src |-> s, alt |-> a, table |-> <<>>, text |-> <<>>] :
        s \in ImgSrcs, a \in ImgAlts }

ImgInit ==
    /\ i_tags \in SeqsUpTo(ImgTags, MaxImgs)
    /\ i_outs = <<>>
    /\ i_pc = "scrape"
    /\ i_images = <<>>
    /\ i_md = <<>>

\* Lines 58-86.
ScrapeImages ==
    /\ i_pc = "scrape"
    /\ \E outs \in ImageOutcomes(i_tags) :
        /\ i_outs' = outs
        /\ i_images' = EmbedImages(ScrapedUrl, i_tags, outs, 0)
    /\ i_pc' = "format"
    /\ UNCHANGED <<i_tags, i_md>>

\* Lines 163-167.
FormatImages ==
    /\ i_pc = "format"
    /\ i_md' = RenderImages(i_images)
    /\ i_pc' = "done"
    /\ UNCHANGED <<i_tags, i_outs, i_images>>

-----------------------------------------------------------------------------
(* The text pass on its own: src/OSWebScrap.py lines 124-133.              *)

MaxTextLen == 5

\* The characters of a text node: letters, space, line end, tab.
TextChars == {"a", "b", " ", "\n", "\t"}

\* The text nodes of a page.
TextElements ==
    { [kind |-> "text", src |-> None, alt |-> None, table |-> <<>>, text |-> t] :
        t \in SeqsUpTo(TextChars, MaxTextLen) }

\* <script> and <style> elements.
HiddenElements ==
    { [kind |-> k, src |-> None, alt |-> None, table |-> <<>>, text |-> <<"j", " ", " ", "s">>] :
        k \in {"script", "style"} }

\* A page of one text node, a <script> or <style> before it or not.
TextPages ==
    { <<t>> : t \in TextElements } \cup { <<h, t>> : h \in HiddenElements, t \in TextElements }

TextInit ==
    /\ x_page \in TextPages
    /\ x_pc = "clean"
    /\ x_cleaned = <<>>

\* Lines 126-133.
CleanText ==
    /\ x_pc = "clean"
    /\ x_cleaned' = cleaned_text(VisibleText(x_page))
    /\ x_pc' = "done"
    /\ UNCHANGED x_page

-----------------------------------------------------------------------------
(* The PDF endpoints: src/api/main.py lines 167-442.  Every handler is an  *)
(* async function that never awaits, so a server process runs them one at  *)
(* a time, each to its end.  A dict is a function on its keys.             *)

MAX_FILE_SIZE_MB == 5
MAX_PAGE_COUNT == 5

\* dict.get(key)
dict_get(d, key) == IF key \in DOMAIN d THEN d[key] ELSE None

\* file.filename: none, or one of two names.
PdfNames == { <<"f", "1">>, <<"f", "2">> }

\* f"RawInputs/{file.filename}"
s3_key_of(filename) == <<"R", "a", "w", "I", "n", "p", "u", "t", "s", "/">> \o filename

\* s3_client.generate_presigned_url('get_object', ...)
presigned_url(s3_key) == <<"u", "r", "l", ":">> \o s3_key

\* os.path.join(os.getcwd(), filename)
downloaded_pdf_path(filename) == <<"c", "w", "d", "/">> \o filename

\* A slip: the page count is not looked at.
check_pdf_constraints_SizeOnly(size_mb, page_count, readable) ==
    IF ~readable THEN "error"
    ELSE IF size_mb > MAX_FILE_SIZE_MB THEN "error"
    ELSE "success"

\* Lines 119-145: "error" for a file over a limit or one that cannot be
\* measured (the except branch), "success" otherwise.
check_pdf_constraints(size_mb, page_count, readable) ==
    IF ~readable THEN "error"
    ELSE IF size_mb > MAX_FILE_SIZE_MB THEN "error"
    ELSE IF page_count > MAX_PAGE_COUNT THEN "error"
    ELSE "success"

\* A slip: the dict is updated in place, its other keys kept.
DetailsAfterUpload_Update(details, filename) ==
    [k \in DOMAIN details \cup {"filename", "file_url", "s3_key"} |->
        IF k = "filename" THEN filename
        ELSE IF k = "file_url" THEN presigned_url(s3_key_of(filename))
        ELSE IF k = "s3_key" THEN s3_key_of(filename)
        ELSE details[k]]

\* Lines 211-216: the global is bound to a new dict of three keys.
DetailsAfterUpload(details, filename) ==
    [filename |-> filename,
     file_url |-> presigned_url(s3_key_of(filename)),
     s3_key |-> s3_key_of(filename)]

\* Line 254: latest_file_details["local_path"] = downloaded_pdf_path
DetailsAfterDownload(details) ==
    [k \in DOMAIN details \cup {"local_path"} |->
        IF k = "local_path" THEN downloaded_pdf_path(details["filename"]) ELSE details[k]]

\* The status a handler answers with when an HTTPException with `status` is
\* raised inside its try block.  upload_pdf has `except HTTPException: raise e`
\* (lines 224-227); the other handlers have `except Exception` only, which
\* catches HTTPException, a subclass of Exception, and raises a 500.
StatusAfterExcept(endpoint, status) ==
    IF endpoint = "upload-pdf" THEN status ELSE "500"

\* What is recorded of a request.
RequestRecord(endpoint, before) ==
    [endpoint |-> endpoint, status |-> "none", before |-> before,
     collaborator |-> FALSE, local_path |-> None,
     content_type |-> "none", filename |-> <<>>, bucket |-> FALSE,
     service_type |-> "none", size_mb |-> 0, page_count |-> 0, readable |-> FALSE,
     save |-> "none", put |-> "none",
     saved |-> FALSE, temp_exists |-> FALSE, s3_written |-> FALSE]

\* Lines 167-231: how upload_pdf ends for the request r.  save is how lines 183-185 end
\* ("create_failed": no temporary file was made; "write_failed": it was made,
\* and temp_pdf_path is still None), put how s3_client.upload_file ends.
upload_pdf(r) ==
    LET end(status, saved, temp_exists, s3_written) ==
            [status |-> status, saved |-> saved, temp_exists |-> temp_exists,
             s3_written |-> s3_written]
    IN  IF r.content_type # "application/pdf" THEN end("400", FALSE, FALSE, FALSE)
        ELSE IF r.filename = <<>> THEN end("400", FALSE, FALSE, FALSE)
        ELSE IF ~r.bucket THEN end("500", FALSE, FALSE, FALSE)
        ELSE IF r.save = "create_failed" THEN end("500", FALSE, FALSE, FALSE)
        ELSE IF r.save = "write_failed" THEN end("500", FALSE, TRUE, FALSE)
        ELSE IF /\ r.service_type = "Enterprise"
                /\ check_pdf_constraints(r.size_mb, r.page_count, r.readable) = "error"
             THEN end(StatusAfterExcept("upload-pdf", "400"), TRUE, FALSE, FALSE)
        ELSE IF r.put = "NoCredentialsError" THEN end("500", TRUE, FALSE, FALSE)
        ELSE IF r.put = "error" THEN end("500", TRUE, FALSE, FALSE)
        ELSE IF ~r.presign_ok THEN end("500", TRUE, FALSE, TRUE)
        ELSE end("200", TRUE, FALSE, TRUE)

PdfInit ==
    /\ latest_file_details = <<>>
    /\ pdf_last = RequestRecord("none", <<>>)
    /\ pdf_uploaded = None
    /\ pdf_fetched = FALSE

\* The requests to /upload-pdf.  An input the handler does not get to is
\* held at one value: nothing past a failed step, the file's measures only
\* as far as they are looked at.
UploadRequests ==
    { r \in [content_type : {"application/pdf", "text/plain"},
             filename : PdfNames \cup {<<>>},
             bucket : BOOLEAN,
             service_type : {"Enterprise", "Open Source"},
             size_mb : {MAX_FILE_SIZE_MB, MAX_FILE_SIZE_MB + 1},
             page_count : {MAX_PAGE_COUNT, MAX_PAGE_COUNT + 1},
             readable : BOOLEAN,
             save : {"ok", "create_failed", "write_failed"},
             put : {"ok", "NoCredentialsError", "error"},
             presign_ok : BOOLEAN] :
        LET rest(fields) == \A f \in fields :
                r[f] = [filename |-> <<>>, bucket |-> TRUE, service_type |-> "Open Source",
                        size_mb |-> MAX_FILE_SIZE_MB, page_count |-> MAX_PAGE_COUNT,
                        readable |-> TRUE, save |-> "ok", put |-> "ok",
                        presign_ok |-> TRUE][f]
            file == {"service_type", "size_mb", "page_count", "readable"}
        IN  IF r.content_type # "application/pdf"
            THEN rest({"filename", "bucket", "save", "put", "presign_ok"} \cup file)
            ELSE IF r.filename = <<>> THEN rest({"bucket", "save", "put", "presign_ok"} \cup file)
            ELSE IF ~r.bucket THEN rest({"save", "put", "presign_ok"} \cup file)
            ELSE IF r.save # "ok" THEN rest({"put", "presign_ok"} \cup file)
            ELSE IF r.service_type # "Enterprise" THEN
                    /\ rest({"readable"})
                    /\ r.put # "ok" => rest({"presign_ok"})
            ELSE IF check_pdf_constraints(r.size_mb, r.page_count, r.readable) = "error"
                 THEN rest({"put", "presign_ok"})
            ELSE r.put # "ok" => rest({"presign_ok"}) }

\* POST /upload-pdf
UploadPdf ==
    \E r \in UploadRequests :
        LET e == upload_pdf(r)
        IN  /\ pdf_last' = [RequestRecord("upload-pdf", latest_file_details) EXCEPT
                                !.status = e.status, !.saved = e.saved,
                                !.temp_exists = e.temp_exists, !.s3_written = e.s3_written,
                                !.content_type = r.content_type, !.filename = r.filename,
                                !.bucket = r.bucket, !.service_type = r.service_type,
                                !.size_mb = r.size_mb, !.page_count = r.page_count,
                                !.readable = r.readable, !.save = r.save, !.put = r.put]
            /\ IF e.status = "200"
               THEN /\ latest_file_details' = DetailsAfterUpload(latest_file_details, r.filename)
                    /\ pdf_uploaded' = r.filename
                    /\ pdf_fetched' = FALSE
               ELSE UNCHANGED <<latest_file_details, pdf_uploaded, pdf_fetched>>

\* GET /get-latest-file-url, lines 233-259.  A RequestException (transport
\* failure, or raise_for_status on an expired URL) is answered with a 500, an
\* OSError of open() or write() with the framework's 500.
GetLatestFileUrl ==
    IF latest_file_details = <<>>
    THEN /\ pdf_last' = [RequestRecord("get-latest-file-url", latest_file_details)
                            EXCEPT !.status = "404"]
         /\ UNCHANGED <<latest_file_details, pdf_uploaded, pdf_fetched>>
    ELSE \E download \in {"ok", "RequestException", "OSError"} :
            /\ pdf_last' = [RequestRecord("get-latest-file-url", latest_file_details)
                                EXCEPT !.status = IF download = "ok" THEN "200" ELSE "500"]
            /\ IF download = "ok"
               THEN /\ latest_file_details' = DetailsAfterDownload(latest_file_details)
                    /\ pdf_fetched' = TRUE
               ELSE UNCHANGED <<latest_file_details, pdf_fetched>>
            /\ UNCHANGED pdf_uploaded

ParseEndpoints == {"parse-pdf", "parse-pdf-azure", "convert-pdf-markdown"}

\* GET /parse-pdf (lines 262-291), /parse-pdf-azure (293-319) and
\* /convert-pdf-markdown (415-442): the same steps around a different
\* collaborator (extract_all_from_pdf, extract_and_upload_pdf, main).
ParsePdf(endpoint) ==
    /\ IF latest_file_details = <<>>
       THEN pdf_last' = [RequestRecord(endpoint, latest_file_details)
                            EXCEPT !.status = StatusAfterExcept(endpoint, "404")]
       ELSE IF \/ dict_get(latest_file_details, "local_path") = None
               \/ dict_get(latest_file_details, "filename") = None
       THEN pdf_last' = [RequestRecord(endpoint, latest_file_details)
                            EXCEPT !.status = StatusAfterExcept(endpoint, "404")]
       ELSE \E raises \in BOOLEAN :
               pdf_last' = [RequestRecord(endpoint, latest_file_details)
                               EXCEPT !.status = IF raises THEN "500" ELSE "200",
                                      !.collaborator = TRUE,
                                      !.local_path = latest_file_details["local_path"]]
    /\ UNCHANGED <<latest_file_details, pdf_uploaded, pdf_fetched>>

\* GET /list-pdf-contents, lines 321-413.
ListPdfContents ==
    /\ IF latest_file_details = <<>>
       THEN pdf_last' = [RequestRecord("list-pdf-contents", latest_file_details)
                            EXCEPT !.status = StatusAfterExcept("list-pdf-contents", "404")]
       ELSE IF dict_get(latest_file_details, "filename") = None
       THEN pdf_last' = [RequestRecord("list-pdf-contents", latest_file_details)
                            EXCEPT !.status = StatusAfterExcept("list-pdf-contents", "404")]
       ELSE \E raises \in BOOLEAN :
               pdf_last' = [RequestRecord("list-pdf-contents", latest_file_details)
                               EXCEPT !.status = IF raises THEN "500" ELSE "200"]
    /\ UNCHANGED <<latest_file_details, pdf_uploaded, pdf_fetched>>

-----------------------------------------------------------------------------
(* Specifications.                                                         *)

UrlIdle == u_url = <<>> /\ u_done = TRUE /\ u_result = FALSE
TableIdle == t_table = <<>> /\ t_pc = "idle" /\ t_tables = <<>> /\ t_md = <<>>
MainIdle ==
    /\ entry = "none" /\ pc = "idle" /\ user_url = <<>> /\ valid = FALSE /\ web_page = <<>>
    /\ call = 0 /\ soup = <<>> /\ img_idx = 0 /\ images_list = <<>> /\ tables_list = <<>>
    /\ markdown_content = <<>> /\ s3_object = <<>> /\ s3_at_call = <<>>
    /\ net = <<>> /\ put_results = <<>> /\ returned = <<>> /\ response = "none"
ConcIdle ==
    /\ c_entry = <<>> /\ c_page = <<>> /\ c_pc = <<>> /\ c_call = <<>> /\ c_doc = <<>>
    /\ c_store = {} /\ c_puts = <<>>
ImgIdle == i_tags = <<>> /\ i_outs = <<>> /\ i_pc = "idle" /\ i_images = <<>> /\ i_md = <<>>
TextIdle == x_page = <<>> /\ x_pc = "idle" /\ x_cleaned = <<>>
PdfIdle ==
    /\ latest_file_details = <<>> /\ pdf_last = <<>> /\ pdf_uploaded = <<>>
    /\ pdf_fetched = FALSE

\* Calls of is_valid_url.
InitUrl == UrlInit /\ TableIdle /\ MainIdle /\ ConcIdle /\ ImgIdle /\ TextIdle /\ PdfIdle

UrlNext == CallIsValidUrl /\ UNCHANGED <<tvars, mvars, cvars, ivars, xvars, pvars>>

SpecUrl == InitUrl /\ [][UrlNext]_vars

\* The table pass of scrape_visual_data.
TableNext ==
    \/ ScrapeTables /\ UNCHANGED <<uvars, mvars, cvars, ivars, xvars, pvars>>
    \/ FormatTables /\ UNCHANGED <<uvars, mvars, cvars, ivars, xvars, pvars>>

InitTable == UrlIdle /\ TableInit /\ MainIdle /\ ConcIdle /\ ImgIdle /\ TextIdle /\ PdfIdle

SpecTable == InitTable /\ [][TableNext]_vars

\* One request, from validation to its response.
Init == UrlIdle /\ TableIdle /\ MainInit /\ ConcIdle /\ ImgIdle /\ TextIdle /\ PdfIdle

Next ==
    \/ ScrapeUrlValidate /\ UNCHANGED <<uvars, tvars, cvars, ivars, xvars, pvars>>
    \/ MainValidate /\ UNCHANGED <<uvars, tvars, cvars, ivars, xvars, pvars>>
    \/ FetchPage /\ UNCHANGED <<uvars, tvars, cvars, ivars, xvars, pvars>>
    \/ SkipImage /\ UNCHANGED <<uvars, tvars, cvars, ivars, xvars, pvars>>
    \/ FetchImage /\ UNCHANGED <<uvars, tvars, cvars, ivars, xvars, pvars>>
    \/ BuildMarkdown /\ UNCHANGED <<uvars, tvars, cvars, ivars, xvars, pvars>>
    \/ Upload /\ UNCHANGED <<uvars, tvars, cvars, ivars, xvars, pvars>>

Spec == Init /\ [][Next]_vars

\* Two requests at once.
InitConc == UrlIdle /\ TableIdle /\ MainIdle /\ ConcInit /\ ImgIdle /\ TextIdle /\ PdfIdle

ConcNext ==
    \/ \E p \in Procs : ConcScrape(p) /\ UNCHANGED <<uvars, tvars, mvars, ivars, xvars, pvars>>
    \/ \E p \in Procs : ConcUpload(p) /\ UNCHANGED <<uvars, tvars, mvars, ivars, xvars, pvars>>

SpecConc == InitConc /\ [][ConcNext]_vars

\* The image pass of scrape_visual_data.
InitImg == UrlIdle /\ TableIdle /\ MainIdle /\ ConcIdle /\ ImgInit /\ TextIdle /\ PdfIdle

ImgNext ==
    \/ ScrapeImages /\ UNCHANGED <<uvars, tvars, mvars, cvars, xvars, pvars>>
    \/ FormatImages /\ UNCHANGED <<uvars, tvars, mvars, cvars, xvars, pvars>>

SpecImg == InitImg /\ [][ImgNext]_vars

\* The text pass of scrape_visual_data.
InitText == UrlIdle /\ TableIdle /\ MainIdle /\ ConcIdle /\ ImgIdle /\ TextInit /\ PdfIdle

TextNext == CleanText /\ UNCHANGED <<uvars, tvars, mvars, cvars, ivars, pvars>>

SpecText == InitText /\ [][TextNext]_vars

\* Requests to the PDF endpoints, in any order.
InitPdf == UrlIdle /\ TableIdle /\ MainIdle /\ ConcIdle /\ ImgIdle /\ TextIdle /\ PdfInit

PdfNext ==
    \/ UploadPdf /\ UNCHANGED <<uvars, tvars, mvars, cvars, ivars, xvars>>
    \/ GetLatestFileUrl /\ UNCHANGED <<uvars, tvars, mvars, cvars, ivars, xvars>>
    \/ \E endpoint \in ParseEndpoints :
            ParsePdf(endpoint) /\ UNCHANGED <<uvars, tvars, mvars, cvars, ivars, xvars>>
    \/ ListPdfContents /\ UNCHANGED <<uvars, tvars, mvars, cvars, ivars, xvars>>

SpecPdf == InitPdf /\ [][PdfNext]_vars

-----------------------------------------------------------------------------
(* What the claims speak of.                                               *)

\* The positions of the "|" of a line that no backslash precedes.
UnescapedPipes(line) ==
    SelectSeq([i \in 1..Len(line) |-> i],
              LAMBDA i : line[i] = "|" /\ (i = 1 \/ line[i - 1] # "\\"))

\* A rendered table line read back: the texts between its column delimiters.
SplitLine(line) ==
    LET p == UnescapedPipes(line)
    IN  [c \in 1..(Len(p) - 1) |-> SubSeq(line, p[c] + 2, p[c + 1] - 2)]

\* A rendered cell with its escaping taken off.
RECURSIVE Unescape(_)
Unescape(s) ==
    IF s = <<>> THEN <<>>
    ELSE IF Len(s) >= 2 /\ s[1] = "\\" /\ s[2] = "|" THEN <<"|">> \o Unescape(Tail(Tail(s)))
    ELSE <<s[1]>> \o Unescape(Tail(s))

\* The cell texts of the <tr> elements that have a cell, in document order.
NonEmptyRowTexts(trs) ==
    LET ne == SelectSeq(trs, LAMBDA r : r # <<>>)
    IN  [i \in 1..Len(ne) |-> [j \in 1..Len(ne[i]) |-> Strip(ne[i][j].text)]]

\* The table has no <th> and its first row has cells: header by position.
HeaderByPosition(table) ==
    /\ \A i \in 1..Len(table) : \A j \in 1..Len(table[i]) : table[i][j].name # "th"
    /\ table # <<>>
    /\ table[1] # <<>>

LinesOfKind(md, kind) == SelectSeq(md, LAMBDA l : l.k = kind)

Max(a, b) == IF a >= b THEN a ELSE b

\* C2: a first row used as the header by position is not among the data rows.
C2_FallbackHeaderRowSkipped ==
    (t_pc = "extracted" /\ HeaderByPosition(t_table))
        => t_tables[1].rows = NonEmptyRowTexts(Tail(t_table))

\* C3: on every rendered header line and data line of a table the only "|"
\* without a backslash before it are the column delimiters, one more than cells.
C3_EveryPipeEscaped ==
    t_pc = "rendered" =>
        LET hl == LinesOfKind(t_md, "header")
            rl == LinesOfKind(t_md, "row")
        IN  /\ \A i \in 1..Len(hl) :
                    Len(UnescapedPipes(hl[i].chars)) = Len(t_tables[1].headers) + 1
            /\ \A i \in 1..Len(rl) :
                    Len(UnescapedPipes(rl[i].chars)) = Len(t_tables[1].rows[i]) + 1

\* C8: under a non-empty header, data row i is rendered as its own cells, in
\* order and changed by pipe escaping only, then empty cells up to the
\* header's length if it was shorter: Max(len(row), len(headers)) cells.
C8_RowsPaddedNeverTruncated ==
    t_pc = "rendered" =>
        LET extracted == ExtractTable(t_table)
            rl == LinesOfKind(t_md, "row")
        IN  extracted.headers # <<>> =>
                /\ Len(rl) = Len(extracted.rows)
                /\ \A i \in 1..Len(rl) :
                    LET row == extracted.rows[i]
                        cells == SplitLine(rl[i].chars)
                    IN  /\ Len(cells) = Max(Len(row), Len(extracted.headers))
                        /\ Len(cells) >= Len(extracted.headers)
                        /\ \A j \in 1..Len(row) : Unescape(cells[j]) = row[j]
                        /\ \A j \in (Len(row) + 1)..Len(cells) : cells[j] = <<>>
                        /\ t_tables[1].rows[i] = row \o [j \in 1..(Len(cells) - Len(row)) |-> <<>>]

\* C8 witness: a rendered table in which a row shorter than the header was padded
\* and a cell with a "|" was rendered.
C8_Witness ==
    /\ t_pc = "rendered"
    /\ LET extracted == ExtractTable(t_table)
       IN  /\ \E i \in 1..Len(extracted.rows) :
                /\ Len(extracted.rows[i]) < Len(extracted.headers)
                /\ Len(t_tables[1].rows[i]) = Len(extracted.headers)
                /\ \E j \in 1..Len(extracted.rows[i]) : extracted.rows[i][j] = <<"a", "|", "b">>

\* C9: the data rows are the rows that have a cell, in document order, all of
\* them or all but the first row (the one row taken as the header).
C9_OnlyEmptyAndHeaderRowsDropped ==
    t_pc = "extracted" =>
        \/ t_tables[1].rows = NonEmptyRowTexts(t_table)
        \/ /\ t_table # <<>>
           /\ t_tables[1].rows = NonEmptyRowTexts(Tail(t_table))

-----------------------------------------------------------------------------
(* Validation, fetching, the sink and the layout of the document.          *)

\* C1: is_valid_url(url) is true iff the scheme is http or https and the
\* path (not the query, not the fragment) does not end in a disallowed
\* extension, whatever the case of the extension.
C1_ValidIffSchemeAndPathExtension ==
    u_done =>
        (u_result <=> (UrlHasHttpScheme(u_url) /\ ~PathHasDisallowedExtension(u_url)))

\* The entries of net made by call c with operation op.
NetOf(c, op) == SelectSeq(net, LAMBDA e : e.call = c /\ e.op = op)

\* C4: an image whose fetch failed, by transport or by status, is not in the
\* Images section; the failure ends nothing: the images fetched well, every
\* table and the text are in the document.
C4_FailedImageOmitted ==
    /\ pc = "raised" => net[Len(net)].op = "get_page"
    /\ pc = "upload" =>
        LET fetched == SelectSeq(NetOf(call, "get_image"), LAMBDA e : e.outcome = "ok")
        IN  /\ Len(images_list) = Len(fetched)
            /\ Len(LinesOfKind(markdown_content, "img")) = Len(fetched)
            /\ \A i \in 1..Len(images_list) : images_list[i].embedded.data = "image_bytes"
            /\ Len(LinesOfKind(markdown_content, "h3")) = Len(find_all(soup, "table"))
            /\ Len(LinesOfKind(markdown_content, "text")) = 1

C6_SinkFailureGivesNoAddress ==
    \A c \in 1..Len(returned) : put_results[c] = "None" => returned[c] = "None"

\* C7: no request of the network or of the sink is made for a URL the
\* validation rejected; the request ends there, with 400 or exit 1.
C7_RejectedUrlNeverFetched ==
    /\ net # <<>> => valid
    /\ (pc # "validate" /\ ~valid) => pc = "rejected"
    /\ pc = "rejected" =>
        /\ ~valid
        /\ net = <<>>
        /\ call = 0
        /\ returned = <<>>
        /\ s3_object = <<>>
        /\ response = (IF entry = "api" THEN "400" ELSE "exit 1")

\* C7 witness: a request of the endpoint rejected.
C7_Witness ==
    /\ pc = "rejected"
    /\ entry = "api"
    /\ response = "400"
    /\ web_page # <<>>

\* The index of the h2 line with the given text, 0 when there is none.
SectionAt(md, name) ==
    IF \E i \in 1..Len(md) : md[i].k = "h2" /\ md[i].chars = name
    THEN CHOOSE i \in 1..Len(md) : md[i].k = "h2" /\ md[i].chars = name
    ELSE 0

TablesHeading == <<"T", "a", "b", "l", "e", "s">>
ImagesHeading == <<"I", "m", "a", "g", "e", "s">>

\* C10: title, Content; Tables iff a table was extracted; Images iff an image
\* was embedded; in that order, the tables numbered 1, 2, ... as found.
C10_FixedSectionOrder ==
    pc = "upload" =>
        LET md == markdown_content
            pT == SectionAt(md, TablesHeading)
            pI == SectionAt(md, ImagesHeading)
            h2 == LinesOfKind(md, "h2")
            h3 == LinesOfKind(md, "h3")
        IN  /\ Len(md) >= 3
            /\ md[1].k = "h1"
            /\ md[2].k = "h2" /\ md[2].chars = <<"C", "o", "n", "t", "e", "n", "t">>
            /\ md[3].k = "text"
            /\ (pT # 0) <=> (find_all(soup, "table") # <<>>)
            /\ (pI # 0) <=> (images_list # <<>>)
            /\ Len(h2) = 1 + (IF pT # 0 THEN 1 ELSE 0) + (IF pI # 0 THEN 1 ELSE 0)
            /\ (pT # 0 /\ pI # 0) => pT < pI
            /\ pT # 0 => pT > 3
            /\ pI # 0 => pI > 3
            /\ Len(h3) = Len(find_all(soup, "table"))
            /\ \A i \in 1..Len(h3) : h3[i].n = i
            /\ Len(LinesOfKind(md, "img")) = Len(images_list)
            /\ \A i \in 1..Len(md) :
                /\ md[i].k \in {"h3", "header", "separator", "row"} =>
                        (pT # 0 /\ pT < i /\ (pI # 0 => i < pI))
                /\ md[i].k = "img" => (pI # 0 /\ pI < i)

\* C10 witness: an image before a table in the page, both in the document.
C10_Witness ==
    /\ pc = "upload"
    /\ Len(web_page) = 2
    /\ web_page[1].kind = "img"
    /\ web_page[2].kind = "table"
    /\ images_list # <<>>
    /\ SectionAt(markdown_content, TablesHeading) # 0
    /\ SectionAt(markdown_content, ImagesHeading) # 0

-----------------------------------------------------------------------------
(* Two requests at once.                                                   *)

ConcAllDone == \A p \in Procs : c_pc[p] = "done"

\* The put_object calls that succeeded, in order.
ConcWritten == SelectSeq(c_puts, LAMBDA w : w.ok)

\* C11: every write goes to the one fixed key; once both requests are done the
\* bucket holds, at that key, the whole document of the last write that
\* succeeded, and nothing of any other; with no successful write it holds nothing.
C11_LastWriterWins ==
    /\ \A i \in 1..Len(c_puts) :
            c_puts[i].key = "scraped_data/scraped_os_data/scraped_content.md"
    /\ Cardinality(c_store) <= 1
    /\ ConcAllDone =>
        IF ConcWritten = <<>> THEN c_store = {}
        ELSE LET last == ConcWritten[Len(ConcWritten)]
             IN  c_store = {[key |-> "scraped_data/scraped_os_data/scraped_content.md",
                             body |-> last.body]}

\* C11 witness: request 2 wrote its document between the scrape and the write of
\* request 1, whose different document is the one that stays.
C11_Witness ==
    /\ ConcAllDone
    /\ Len(c_puts) = 2
    /\ c_puts[1].proc = 2 /\ c_puts[1].ok
    /\ c_puts[2].proc = 1 /\ c_puts[2].ok
    /\ c_doc[1] # c_doc[2]
    /\ c_store = {[key |-> markdown_s3_path, body |-> c_doc[1]]}

-----------------------------------------------------------------------------
(* The image pass.                                                         *)

\* The positions, counted from 1 among all <img> of the page, of those that
\* have a src and whose fetch did not raise, from position i on.
RECURSIVE KeptImgs(_, _, _)
KeptImgs(img_tags, outs, i) ==
    IF i > Len(img_tags) THEN <<>>
    ELSE IF img_tags[i].src # None /\ outs[i] # "transport_error"
         THEN <<i>> \o KeptImgs(img_tags, outs, i + 1)
         ELSE KeptImgs(img_tags, outs, i + 1)

\* The image lines of the Images section.
ImgLines == SelectSeq(i_md, LAMBDA l : l.k = "img")

\* C12: an <img> without alt is rendered as "Image n", n its position counted
\* from 1 among all <img> of the page, whatever happened to the ones before it;
\* an alt that is there is rendered as it is.
C12_DefaultAltIsPagePosition ==
    i_pc \in {"format", "done"} =>
        LET kept == KeptImgs(i_tags, i_outs, 1)
        IN  /\ Len(i_images) = Len(kept)
            /\ \A j \in 1..Len(kept) :
                 LET img_tag == i_tags[kept[j]]
                     shown == IF i_pc = "done" THEN ImgLines[j].alt ELSE i_images[j].alt
                 IN  IF img_tag.alt = None
                     THEN shown = [text |-> <<"I", "m", "a", "g", "e", " ">>, n |-> kept[j]]
                     ELSE shown = [text |-> img_tag.alt, n |-> 0]
            /\ i_pc = "done" => Len(ImgLines) = Len(kept)

\* C12 witness: the first <img> is not rendered (no src, or its fetch raised)
\* and the second, without alt, is rendered first, as "Image 2".
C12_Witness ==
    /\ i_pc = "done"
    /\ Len(i_tags) = 2
    /\ i_tags[2].alt = None
    /\ i_tags[1].src = None \/ i_outs[1] = "transport_error"
    /\ Len(ImgLines) = 1
    /\ ImgLines[1].alt.n = 2

\* The last n characters of s, upper case letters read as lower case.
LowerEnd(s, n) == IF Len(s) < n THEN <<>> ELSE Lower(SubSeq(s, Len(s) - n + 1, Len(s)))

\* C13: the type of an embedded image is png when the resolved URL ends in
\* .png, gif when it ends in .gif, in any letter case, and jpeg otherwise;
\* what the fetch returned has no part in it.
C13_TypeFromUrlEnding ==
    i_pc \in {"format", "done"} =>
        LET kept == KeptImgs(i_tags, i_outs, 1)
        IN  /\ Len(i_images) = Len(kept)
            /\ \A j \in 1..Len(kept) :
                 LET img_url == urljoin(ScrapedUrl, i_tags[kept[j]].src)
                     format == i_images[j].embedded.format
                 IN  /\ (format = "png") <=> (LowerEnd(img_url, 4) = <<".", "p", "n", "g">>)
                     /\ (format = "gif") <=> (LowerEnd(img_url, 4) = <<".", "g", "i", "f">>)
                     /\ format \in {"png", "gif", "jpeg"}
            /\ \A j, k \in 1..Len(kept) :
                 i_tags[kept[j]].src = i_tags[kept[k]].src
                    => i_images[j].embedded.format = i_images[k].embedded.format

\* C13 witness: a.PNG embedded as png with the bytes of an error page, b.gif
\* or c.webp next to it with the bytes of an image.
C13_Witness ==
    /\ i_pc = "done"
    /\ Len(i_images) = 2
    /\ i_tags[1].src = <<"a", ".", "P", "N", "G">>
    /\ i_outs[1] = "http_error" /\ i_outs[2] = "ok"
    /\ i_images[1].embedded.format = "png"
    /\ i_images[1].embedded.data # i_images[2].embedded.data
    /\ i_images[2].embedded.format \in {"gif", "jpeg"}

-----------------------------------------------------------------------------
(* The text pass.                                                          *)

\* The lines of s: the pieces between its line ends, empty ones too.
RECURSIVE LinesOf(_)
LinesOf(s) ==
    IF \E i \in 1..Len(s) : s[i] = "\n"
    THEN LET i == CHOOSE i \in 1..Len(s) : s[i] = "\n" /\ \A j \in 1..(i - 1) : s[j] # "\n"
         IN  <<SubSeq(s, 1, i - 1)>> \o LinesOf(SubSeq(s, i + 1, Len(s)))
    ELSE <<s>>

\* s without its spaces, tabs and line ends.
Inked(s) == SelectSeq(s, LAMBDA c : c \notin {" ", "\n", "\t"})

\* The text of the text nodes of the page, in document order.
NodeText == Concat([i \in 1..Len(x_page) |->
                    IF x_page[i].kind = "text" THEN x_page[i].text ELSE <<>>])

\* C14: every line of the cleaned text is non-empty, neither starts nor ends
\* with whitespace and has no two spaces in a row; the cleaned text holds what
\* the text nodes hold, in their order, and nothing of a script or style.
C14_CleanedLinesAreTrimmedPieces ==
    x_pc = "done" =>
        /\ x_cleaned # <<>> =>
             \A i \in 1..Len(LinesOf(x_cleaned)) :
                LET line == LinesOf(x_cleaned)[i]
                IN  /\ line # <<>>
                    /\ line[1] \notin {" ", "\n", "\t"}
                    /\ line[Len(line)] \notin {" ", "\n", "\t"}
                    /\ \A j \in 1..(Len(line) - 1) : ~(line[j] = " " /\ line[j + 1] = " ")
        /\ Inked(x_cleaned) = Inked(NodeText)
        /\ (x_cleaned = <<>>) <=> (Inked(NodeText) = <<>>)

\* C14 witness: a text that starts with whitespace and has a double space and
\* an empty line, next to a script: two pieces come out, in order.
C14_Witness ==
    /\ x_pc = "done"
    /\ Len(x_page) = 2
    /\ x_page[2].text = <<"\t", "b", " ", " ", "a">> \/ x_page[2].text = <<"b", "\n", "\n", " ", "a">>
    /\ x_cleaned = <<"b", "\n", "a">>

-----------------------------------------------------------------------------
(* The PDF endpoints.                                                      *)

\* C15: a request to one of the four endpoints made while the slot is empty,
\* or, for the three parse and convert endpoints, while it has no local_path,
\* is answered with 404, and no parsing collaborator is called.
C15_EmptySlotAnsweredWith404 ==
    (/\ pdf_last.endpoint \in ParseEndpoints \cup {"list-pdf-contents"}
     /\ \/ pdf_last.before = <<>>
        \/ /\ pdf_last.endpoint \in ParseEndpoints
           /\ "local_path" \notin DOMAIN pdf_last.before)
        => (pdf_last.status = "404" /\ ~pdf_last.collaborator)

\* C16: the slot is empty or is the record of the last upload that succeeded;
\* a successful upload leaves a record without local_path; a local_path in the
\* slot is the download path of the slot's filename and was put there by a
\* download after that upload; a parse or convert request that called its
\* collaborator did so on that path.
C16_SlotHoldsLastUploadOnly ==
    /\ IF pdf_uploaded = <<"None">>
       THEN latest_file_details = <<>>
       ELSE /\ latest_file_details # <<>>
            /\ latest_file_details["filename"] = pdf_uploaded
    /\ (pdf_last.endpoint = "upload-pdf" /\ pdf_last.status = "200")
            => /\ "local_path" \notin DOMAIN latest_file_details
               /\ latest_file_details["filename"] = pdf_last.filename
    /\ (latest_file_details # <<>> /\ "local_path" \in DOMAIN latest_file_details)
            => /\ latest_file_details["local_path"]
                    = <<"c", "w", "d", "/">> \o latest_file_details["filename"]
               /\ pdf_fetched
    /\ (pdf_last.endpoint \in ParseEndpoints /\ pdf_last.collaborator)
            => /\ pdf_fetched
               /\ pdf_last.local_path = <<"c", "w", "d", "/">> \o pdf_uploaded

\* C16 witness: a successful upload of f2 while the slot held f1 and its
\* local_path; the slot is the record of f2, without local_path.
C16_Witness ==
    /\ pdf_last.endpoint = "upload-pdf" /\ pdf_last.status = "200"
    /\ pdf_last.before # <<>>
    /\ "local_path" \in DOMAIN pdf_last.before
    /\ pdf_last.before["filename"] = <<"f", "1">>
    /\ latest_file_details["filename"] = <<"f", "2">>
    /\ "local_path" \notin DOMAIN latest_file_details
    /\ ~pdf_fetched

\* The upload got as far as the constraint check and the file is over a limit.
OverLimitEnterpriseUpload ==
    /\ pdf_last.endpoint = "upload-pdf"
    /\ pdf_last.content_type = "application/pdf" /\ pdf_last.filename # <<>>
    /\ pdf_last.bucket /\ pdf_last.save = "ok"
    /\ pdf_last.service_type = "Enterprise"
    /\ pdf_last.size_mb > 5 \/ pdf_last.page_count > 5

====
